---- MODULE Spec2Model ----
(***************************************************************************)
(* Model of message_passing_examples/core.py: Block / Agent / SimpleAgent  *)
(* / Network.  A Network is built from a blocks map (an ordered dict of    *)
(* child name -> Block) and a connection list; Network.__init__ wires the  *)
(* ports (connect -> connect_ports), Network.check validates the           *)
(* connection list, Network.run calls check and then every child's run()   *)
(* one after the other in blocks-map order.  The agents are the ones the   *)
(* tests of test_core.py build: senders whose run sends a script of        *)
(* messages on outport "out", and a receiver that loops on recv("in").     *)
(* A network may itself be given, under the name "inner", as a child to an *)
(* enclosing network, whose connect() wires it again and whose run() runs  *)
(* it as one of its children.                                              *)
(***************************************************************************)
EXTENDS Naturals, Sequences, FiniteSets, TLC

VARIABLES
    cfg,          \* the arguments the Network is built from (fixed after Init)
    netpc,        \* where the driver is: new, built, construct_failed, check_failed, running, done, run_failed
    out_q,        \* child -> (outport -> queue id, or None): Block.out_q of every child
    in_q,         \* child -> (inport -> queue id): Block.in_q of every child
    net_in_q,     \* the network's own in_q dict  (port -> queue id)
    net_out_q,    \* the network's own out_q dict (port -> queue id)
    queue,        \* queue id -> contents of that SimpleQueue
    checkLog,     \* outcomes of the stand-alone check() calls made so far
    cur,          \* index in the blocks map of the child Network.run is executing
    cpc,          \* child -> position in its run(): idle, init, loop, done, failed
    ip,           \* child -> index of the next message of its script to send
    received,     \* child -> the handler's list (received.append(...))
    stops,        \* child -> received_stop_from of the merging receiver
    consumed,     \* child -> every message recv() has returned to it, in order
    opc,          \* where the driver is with the enclosing network (as netpc)
    ocur,         \* index in the enclosing network's blocks map of the child its run is executing
    err,          \* the exception the last failed run() raised to its caller
    calls         \* the calls the driver made on agents itself, with their outcomes

vars == <<cfg, netpc, out_q, in_q, net_in_q, net_out_q, queue, checkLog, cur, cpc, ip,
          received, stops, consumed, opc, ocur, err, calls>>

----------------------------------------------------------------------------
\* Bounds of the model.

\* longest script a sender's run function sends
MaxLen == 3

\* longest connection list of the wiring configurations
MaxConns == 2

\* most stand-alone check() calls the driver makes on one network
MaxChecks == 2

----------------------------------------------------------------------------
\* Values.

\* the reserved termination message
STOP == "__STOP__"

\* the reserved block name of the network boundary
External == "external"

\* Python's None in an out_q slot (a queue id is a pair, None the empty tuple)
None == <<>>

\* the number of distinct producers the merging receiver waits for
NumProducers == 2

\* a message that is a bare string s
Plain(s) == [sender |-> "-", message |-> s]

\* a message that is the dict {'sender': who, 'message': s}
Tagged(who, s) == [sender |-> who, message |-> s]

IsTagged(m) == m.sender # "-"

\* msg == "__STOP__" as SimpleAgent.run and receiver_run evaluate it
IsSentinel(m) == ~IsTagged(m) /\ m.message = STOP

Range(s) == {s[i] : i \in DOMAIN s}

BSeq(S, n) == UNION {[1..k -> S] : k \in 0..n}

----------------------------------------------------------------------------
\* The blocks the driver builds.

\* the name the network has as a child of an enclosing network
Inner == "inner"

Senders == {"sender", "sender2"}

Children == Senders \cup {"receiver"}

\* every agent the driver instantiates: the three above, "worker", an agent
\* without ports or handler, and an agent like it that the driver may put in
\* the blocks map under the key 'external'; and "receiver2", a second agent
\* with an inport "in", built without a handler
Agents == Children \cup {"worker", External, "receiver2"}

\* declared outports of each block: of an agent, or of the network as a child
Outports(b) ==
    IF b \in Senders THEN {"out"} ELSE IF b = Inner THEN cfg.outports ELSE {}

\* declared inports of each block: of an agent, or of the network as a child
Inports(b) ==
    IF b \in {"receiver", "receiver2"} THEN {"in"}
    ELSE IF b = Inner THEN cfg.inports ELSE {}

\* Block.__init__: one SimpleQueue per declared inport
InQ(b, p) == <<b, p>>

QueueIds == UNION {{InQ(b, p) : p \in Inports(b)} : b \in Agents}

\* Block.__init__: in_q maps every declared inport to its SimpleQueue
InitInQ == [b \in Agents |-> [p \in Inports(b) |-> InQ(b, p)]]

\* Block.__init__: every declared outport starts as None
InitOutQ == [b \in Agents |-> [p \in Outports(b) |-> None]]

----------------------------------------------------------------------------
\* Network.connect_ports.  A wiring state w holds the maps the loop reads and
\* assigns to and whether an exception has been raised: out_q and cin, the
\* out_q and in_q of the agents, in_q and nout_q of the network being wired,
\* and iin and iout, the in_q and out_q of the child that is itself a Network.

\* the blocks map's keys
Blocks(c) == Range(c.order)

\* raise ValueError: every error of the loop body leaves as a ValueError,
\* and the assignments of the earlier connections stay
Raise(w) == [w EXCEPT !.ok = FALSE]

\* the keys of self.blocks[b].out_q
ChildOutKeys(w, b) == IF b = Inner THEN DOMAIN w.iout ELSE DOMAIN w.out_q[b]

\* self.blocks[b].in_q
ChildInQ(w, b) == IF b = Inner THEN w.iin ELSE w.cin[b]

\* an assignment that keeps a slot that is already bound (variant of SetOut)
SetOutKeepsFirst(w, fb, fp, q) ==
    IF fb = Inner THEN [w EXCEPT !.iout[fp] = IF @ = None THEN q ELSE @]
    ELSE [w EXCEPT !.out_q[fb][fp] = IF @ = None THEN q ELSE @]

\* blocks[fb].out_q[fp] = q
SetOut(w, fb, fp, q) ==
    IF fb = Inner THEN [w EXCEPT !.iout[fp] = q] ELSE [w EXCEPT !.out_q[fb][fp] = q]

\* a loop body that gives the destination inport of an internal connection
\* a new binding (variant of ConnectOne)
ConnectOneRebindsInport(w, c, conn) ==
    LET fb == conn[1]
        fp == conn[2]
        tb == conn[3]
        tp == conn[4]
    IN  IF fb = External \/ tb = External THEN Raise(w)
        ELSE IF fb \notin Blocks(c) THEN Raise(w)
             ELSE IF fp \notin ChildOutKeys(w, fb) THEN Raise(w)
             ELSE IF tb \notin Blocks(c) THEN Raise(w)
             ELSE IF tp \notin DOMAIN ChildInQ(w, tb) THEN Raise(w)
             ELSE IF tb = Inner THEN SetOut(w, fb, fp, ChildInQ(w, tb)[tp])
             ELSE [SetOut(w, fb, fp, ChildInQ(w, tb)[tp]) EXCEPT !.cin[tb][tp] = None]

\* the body of the loop for one connection (from_block, from_port, to_block, to_port)
ConnectOne(w, c, conn) ==
    LET fb == conn[1]
        fp == conn[2]
        tb == conn[3]
        tp == conn[4]
    IN  IF fb = External
        THEN IF fp \notin DOMAIN w.in_q THEN Raise(w)
             ELSE IF tb \notin Blocks(c) THEN Raise(w)
             ELSE IF tp \notin DOMAIN ChildInQ(w, tb) THEN Raise(w)
             ELSE [w EXCEPT !.in_q[fp] = ChildInQ(w, tb)[tp]]
        ELSE IF tb = External
        THEN IF tp \notin DOMAIN w.nout_q THEN Raise(w)
             ELSE IF fb \notin Blocks(c) THEN Raise(w)
             ELSE IF fp \notin ChildOutKeys(w, fb) THEN Raise(w)
             ELSE IF w.nout_q[tp] = None THEN Raise(w)
             ELSE SetOut(w, fb, fp, w.nout_q[tp])
        ELSE IF fb \notin Blocks(c) THEN Raise(w)
             ELSE IF fp \notin ChildOutKeys(w, fb) THEN Raise(w)
             ELSE IF tb \notin Blocks(c) THEN Raise(w)
             ELSE IF tp \notin DOMAIN ChildInQ(w, tb) THEN Raise(w)
             ELSE SetOut(w, fb, fp, ChildInQ(w, tb)[tp])

\* the loop over self.connections from connection i on, stopping at the first raise
RECURSIVE ConnectFrom(_, _, _)
ConnectFrom(w, c, i) ==
    IF ~w.ok \/ i > Len(c.conns) THEN w
    ELSE ConnectFrom(ConnectOne(w, c, c.conns[i]), c, i + 1)

\* Network.__init__: self.in_q = {}, self.out_q = {}, then self.connect()
ConnectPorts(c, oq) ==
    ConnectFrom([out_q |-> oq, cin |-> in_q, in_q |-> <<>>, nout_q |-> <<>>,
                 iin |-> <<>>, iout |-> <<>>, ok |-> TRUE], c, 1)

\* whether the network is given as a child to an enclosing Network(...)
Nested(c) == c.outer.order # <<>>

\* the arguments of the enclosing Network(...): it declares no ports of its own
OuterNet(c) ==
    [order |-> c.outer.order, conns |-> c.outer.conns, inports |-> {}, outports |-> {}]

\* connect() of the enclosing network that takes the child network's blocks
\* with unassigned slots and does not wire the child again (variant of ConnectOuter)
ConnectOuterFresh(c, oq, iq, noq) ==
    ConnectFrom([out_q |-> InitOutQ, cin |-> in_q, in_q |-> <<>>, nout_q |-> <<>>,
                 iin |-> iq, iout |-> noq, ok |-> TRUE],
                OuterNet(c), 1)

\* connect() of the enclosing network: block.connect() of the child network
\* wires that child again, from the dicts it has, and then connect_ports
\* wires the enclosing network's own connections
ConnectOuter(c, oq, iq, noq) ==
    LET w1 == ConnectFrom([out_q |-> oq, cin |-> in_q, in_q |-> iq, nout_q |-> noq,
                           iin |-> <<>>, iout |-> <<>>, ok |-> TRUE], c, 1)
    IN  IF ~w1.ok THEN [w1 EXCEPT !.iin = w1.in_q, !.iout = w1.nout_q]
        ELSE ConnectFrom([out_q |-> w1.out_q, cin |-> w1.cin, in_q |-> <<>>, nout_q |-> <<>>,
                          iin |-> w1.in_q, iout |-> w1.nout_q, ok |-> TRUE],
                         OuterNet(c), 1)

----------------------------------------------------------------------------
\* Network.check.  Each operator is TRUE when its part of check raises.

\* len([e for e in self.connections if ...]): the entries of the list, equal
\* ones counted apart, that are among the matching connections S
Count(c, S) == Cardinality({i \in DOMAIN c.conns : c.conns[i] \in S})

\* 1. no block may be called 'external'
CheckReserved(c) == External \in Blocks(c)

\* 2. a connection from a network inport
CheckFromExternal(c, e) ==
    /\ e[1] = External
    /\ \/ e[2] \notin c.inports
       \/ e[3] \notin Blocks(c)
       \/ e[4] \notin c.inports

\* 2. a connection to a network outport
CheckToExternal(c, e) ==
    /\ e[3] = External
    /\ \/ e[4] \notin c.outports
       \/ e[1] \notin Blocks(c)
       \/ e[2] \notin c.outports

\* 2. a connection between two components
CheckInternal(c, e) ==
    /\ e[1] # External
    /\ e[3] # External
    /\ \/ e[1] \notin Blocks(c)
       \/ e[3] \notin Blocks(c)
       \/ e[2] \notin Outports(e[1])
       \/ e[4] \notin Inports(e[3])

CheckConnections(c) ==
    \E i \in DOMAIN c.conns :
        \/ CheckFromExternal(c, c.conns[i])
        \/ CheckToExternal(c, c.conns[i])
        \/ CheckInternal(c, c.conns[i])

\* a network inport may be left unconnected (variant of CheckNetInports)
CheckNetInportsAllowsNone(c) ==
    \E p \in c.inports :
        Count(c, {e \in Range(c.conns) : e[1] = External /\ e[2] = p}) > 1

\* 3. every network inport is the source of exactly one connection
CheckNetInports(c) ==
    \E p \in c.inports :
        Count(c, {e \in Range(c.conns) : e[1] = External /\ e[2] = p}) # 1

\* 4. every network outport is the destination of exactly one connection
CheckNetOutports(c) ==
    \E p \in c.outports :
        Count(c, {e \in Range(c.conns) : e[3] = External /\ e[4] = p}) # 1

\* an outport may fan out (variant of ConnectedOnce)
ConnectedAtLeastOnce(nExt, nInt) == nExt + nInt >= 1

\* 5. the if / elif / else on (len(to_external), len(to_internal))
ConnectedOnce(nExt, nInt) == (nExt = 1 /\ nInt = 0) \/ (nInt = 1 /\ nExt = 0)

\* 5. every outport of every component is connected exactly once
CheckOutports(c) ==
    \E b \in Blocks(c) : \E p \in Outports(b) :
        LET toExt == {e \in Range(c.conns) : e[1] = b /\ e[2] = p /\ e[3] = External}
            toInt == {e \in Range(c.conns) : e[1] = b /\ e[2] = p /\ e[3] # External}
        IN  ~ConnectedOnce(Count(c, toExt), Count(c, toInt))

\* 5. the inports check() prints a WARNING for (it does not raise)
UnconnectedInports(c) ==
    {<<b, p>> \in Agents \X {"in"} :
        /\ b \in Blocks(c)
        /\ p \in Inports(b)
        /\ Count(c, {e \in Range(c.conns) : e[3] = b /\ e[4] = p}) = 0}

\* what a call of check() ends with
Check(c) ==
    IF \/ CheckReserved(c)
       \/ CheckConnections(c)
       \/ CheckNetInports(c)
       \/ CheckNetOutports(c)
       \/ CheckOutports(c)
    THEN "ValueError"
    ELSE "ok"

----------------------------------------------------------------------------
\* The networks the driver builds.  A configuration is the argument list of
\* Network(...) together with what the agents' run functions do:
\*   order    the keys of the blocks map, in insertion order
\*   conns    the connection list
\*   inports, outports   the network's own ports
\*   script   what each sender's run sends on "out", in order
\*   tagged   whether the senders send {'sender':.., 'message':..} dicts
\*   loop     the receiver's loop: "plain" (msg == "__STOP__"), "merge", or
\*            "none" for a receiver built without a handler
\*   outer    the blocks map (its keys, in order) and the connection list of
\*            the enclosing Network(...) the network is a child of under the
\*            name "inner"; an empty blocks map when there is none

Wire(s) == <<s, "out", "receiver", "in">>

NoOuter == [order |-> <<>>, conns |-> <<>>]

\* the orders of the blocks map with the receiver and the given senders
Orders2 == {<<"sender", "receiver">>, <<"receiver", "sender">>}

Orders3 ==
    {o \in [1..3 -> Children] : \A i, j \in 1..3 : i # j => o[i] # o[j]}

NoScript == [b \in Agents |-> <<>>]

\* sender -> receiver, as in test_two_simple_agents and test_two_agents
TwoNodeConfigs ==
    {[order |-> o, conns |-> <<Wire("sender")>>, inports |-> {}, outports |-> {},
      script |-> [NoScript EXCEPT !["sender"] = s], tagged |-> t, loop |-> l,
      outer |-> NoOuter] :
        o \in Orders2, s \in BSeq({"a", "b", STOP}, MaxLen),
        t \in BOOLEAN, l \in {"plain", "merge"}}

\* two senders merged into the receiver's inport, as in test_merge_agent
FanInConfigs ==
    {[order |-> o, conns |-> <<Wire("sender2"), Wire("sender")>>,
      inports |-> {}, outports |-> {},
      script |-> [NoScript EXCEPT !["sender"] = s, !["sender2"] = s2],
      tagged |-> tl[1], loop |-> tl[2], outer |-> NoOuter] :
        o \in Orders3, s \in BSeq({"a", STOP}, MaxLen), s2 \in BSeq({"c", STOP}, MaxLen),
        tl \in {<<TRUE, "merge">>, <<FALSE, "plain">>}}

\* the connections a wiring configuration is drawn from: the valid one, an
\* undeclared source port (test_network_check_validation), an undeclared
\* destination port, a block that is not in the blocks map, and the
\* boundary connections, from a network inport named unlike and like the
\* child's inport and to a network outport named unlike and like the child's
\* outport
CandidateConns ==
    {Wire("sender"),
     <<"sender", "bad_out", "receiver", "in">>,
     <<"sender", "out", "receiver", "bad_in">>,
     <<"sender2", "out", "receiver", "in">>,
     <<External, "nin", "receiver", "in">>,
     <<External, "in", "receiver", "in">>,
     <<"sender", "out", External, "nout">>,
     <<"sender", "out", External, "out">>}

\* the inports= and outports= arguments of the wiring configurations
NetInports == {{}, {"nin"}, {"in"}}

NetOutports == {{}, {"nout"}, {"out"}}

\* sender and receiver under every short connection list
WiringConfigs ==
    {[order |-> <<"sender", "receiver">>, conns |-> cs, inports |-> i, outports |-> o,
      script |-> [NoScript EXCEPT !["sender"] = <<"a", STOP>>],
      tagged |-> FALSE, loop |-> "plain", outer |-> NoOuter] :
        cs \in BSeq(CandidateConns, MaxConns), i \in NetInports, o \in NetOutports}

\* a receiver whose inport nothing is connected to, alone or with the worker;
\* without a handler it is the receiver of test_network_check_validation
UnconnectedConfigs ==
    {[order |-> o, conns |-> <<>>, inports |-> {}, outports |-> {},
      script |-> NoScript, tagged |-> FALSE, loop |-> l, outer |-> NoOuter] :
        o \in {<<"receiver">>, <<"receiver", "worker">>, <<"worker", "receiver">>},
        l \in {"plain", "none"}}

\* the worker, whose run sends on "out", a port it does not declare: alone,
\* before the receiver, and between a sender and the receiver it is wired to
UndeclaredPortConfigs ==
    {[order |-> o, conns |-> <<>>, inports |-> {}, outports |-> {},
      script |-> [NoScript EXCEPT !["worker"] = <<"a">>], tagged |-> FALSE,
      loop |-> "none", outer |-> NoOuter] :
        o \in {<<"worker">>, <<"worker", "receiver">>}}
    \cup
    {[order |-> <<"sender", "worker", "receiver">>, conns |-> <<Wire("sender")>>,
      inports |-> {}, outports |-> {},
      script |-> [NoScript EXCEPT !["sender"] = <<"a", STOP>>, !["worker"] = <<"a">>],
      tagged |-> FALSE, loop |-> "plain", outer |-> NoOuter]}

\* fan-out: the sender's outport as the source of two connections, to the
\* inports of two agents, listed in either order
FanOutConfigs ==
    {[order |-> <<"sender", "receiver", "receiver2">>, conns |-> cs,
      inports |-> {}, outports |-> {},
      script |-> [NoScript EXCEPT !["sender"] = <<"a", STOP>>],
      tagged |-> FALSE, loop |-> "plain", outer |-> NoOuter] :
        cs \in {<<Wire("sender"), <<"sender", "out", "receiver2", "in">>>>,
                <<<<"sender", "out", "receiver2", "in">>, Wire("sender")>>}}

\* a blocks map with the key 'external'
ReservedConfigs ==
    {[order |-> o, conns |-> <<>>, inports |-> {}, outports |-> {},
      script |-> NoScript, tagged |-> FALSE, loop |-> "none", outer |-> NoOuter] :
        o \in {<<External>>, <<External, "worker">>, <<"worker", External>>}}

\* the orders of a blocks map with the keys S
Perms(S) ==
    {o \in [1..Cardinality(S) -> S] : \A i, j \in DOMAIN o : i # j => o[i] # o[j]}

\* a network given as a child to an enclosing network:
\* the receiver behind the inner network's inport, fed by a sibling sender
NestedInConfigs ==
    {[order |-> <<"receiver">>, conns |-> <<<<External, "nin", "receiver", "in">>>>,
      inports |-> {"nin"}, outports |-> {},
      script |-> [NoScript EXCEPT !["sender"] = <<"a", STOP>>],
      tagged |-> FALSE, loop |-> "plain",
      outer |-> [order |-> o, conns |-> <<<<"sender", "out", Inner, "nin">>>>]] :
        o \in Perms({"sender", Inner})}

\* the sender behind the inner network's outport, feeding a sibling receiver
NestedOutConfigs ==
    {[order |-> <<"sender">>, conns |-> <<<<"sender", "out", External, "nout">>>>,
      inports |-> {}, outports |-> {"nout"},
      script |-> [NoScript EXCEPT !["sender"] = <<"a", STOP>>],
      tagged |-> FALSE, loop |-> "plain",
      outer |-> [order |-> o, conns |-> <<<<Inner, "nout", "receiver", "in">>>>]] :
        o \in Perms({Inner, "receiver"})}

\* an inner network without boundary ports: sender -> receiver inside, alone
\* or beside the worker in the enclosing network
NestedClosedConfigs ==
    {[order |-> o, conns |-> <<Wire("sender")>>, inports |-> {}, outports |-> {},
      script |-> [NoScript EXCEPT !["sender"] = s],
      tagged |-> FALSE, loop |-> "plain",
      outer |-> [order |-> oo, conns |-> <<>>]] :
        o \in Orders2, s \in BSeq({"a", STOP}, MaxLen),
        oo \in Perms({Inner}) \cup Perms({Inner, "worker"})}

\* the worker alone inside, sender -> receiver beside it in the enclosing network
NestedSiblingConfigs ==
    {[order |-> <<"worker">>, conns |-> <<>>, inports |-> {}, outports |-> {},
      script |-> [NoScript EXCEPT !["sender"] = <<"a", STOP>>],
      tagged |-> FALSE, loop |-> "plain",
      outer |-> [order |-> oo, conns |-> <<Wire("sender")>>]] :
        oo \in Perms({Inner, "sender", "receiver"})}

\* an inner network that declares an inport and wires nothing to it, alone
\* in the enclosing network or with a sibling sender wired to that inport;
\* and an inner network without ports beside a sender wired to nothing
NestedOpenConfigs ==
    {[order |-> <<"sender", "receiver">>, conns |-> <<Wire("sender")>>,
      inports |-> i, outports |-> {},
      script |-> [NoScript EXCEPT !["sender"] = <<"a", STOP>>,
                                  !["sender2"] = <<"c", STOP>>],
      tagged |-> FALSE, loop |-> "plain",
      outer |-> [order |-> oo, conns |-> cs]] :
        i \in {{}, {"nin"}},
        oo \in Perms({Inner}) \cup Perms({Inner, "sender2"}),
        cs \in {<<>>, <<<<"sender2", "out", Inner, "nin">>>>}}

NestedConfigs ==
    NestedInConfigs \cup NestedOutConfigs \cup NestedClosedConfigs
        \cup NestedSiblingConfigs \cup NestedOpenConfigs

Configs ==
    TwoNodeConfigs \cup FanInConfigs \cup WiringConfigs \cup UnconnectedConfigs
        \cup UndeclaredPortConfigs \cup ReservedConfigs \cup FanOutConfigs
        \cup NestedConfigs

----------------------------------------------------------------------------
\* Agents.

\* the message a sender's run passes to send() for the script entry s
Message(c, b, s) == IF c.tagged THEN Tagged(b, s) ELSE Plain(s)

\* every agent enters the receive loop after its sends (variant of Loop)
LoopForEveryAgent(c, b) == IF c.loop = "none" THEN "plain" ELSE c.loop

\* the loop a block's run enters after its sends: only the receiver has one
Loop(c, b) == IF b = "receiver" THEN c.loop ELSE "none"

\* a queue that is not first-in-first-out: put at the head (variant of QPut)
QPutFront(q, m) == <<m>> \o q

\* SimpleQueue.put
QPut(q, m) == Append(q, m)

\* a get that returns the newest message (variant of QGet)
QGetNewest(q) == q[Len(q)]

\* SimpleQueue.get on a non-empty queue: the message returned
QGet(q) == Head(q)

\* get() returns the head and leaves it on the queue (variant of QRest)
QRestKeepsHead(q) == q

\* SimpleQueue.get on a non-empty queue: what is left
QRest(q) == Tail(q)

\* Agent.send without its test for an unassigned slot (variant of SendResult)
SendResultDeclaredOnly(b, port) ==
    IF port \notin Outports(b) \/ port \notin DOMAIN out_q[b] THEN "ValueError"
    ELSE "ok"

\* Agent.send: "ok" or the ValueError of its two guards
SendResult(b, port) ==
    IF port \notin Outports(b) \/ port \notin DOMAIN out_q[b] THEN "ValueError"
    ELSE IF out_q[b][port] = None THEN "ValueError"
    ELSE "ok"

\* Agent.recv: "ok" or the ValueError of its two guards
RecvResult(b, port) ==
    IF port \notin Inports(b) \/ port \notin DOMAIN in_q[b] THEN "ValueError"
    ELSE IF in_q[b][port] = None THEN "ValueError"
    ELSE "ok"

\* An exception is its type and the names of blocks that its text contains.
NoError == [type |-> "none", names |-> {}]

\* the name= of the network and of the enclosing network
NetName == "net"

OuterName == "outer"

\* the name= of a child: an agent's is its key, the child network's is NetName
NameOf(b) == IF b = Inner THEN NetName ELSE b

\* the ValueError of Agent.send and Agent.recv: "... of agent {self.name} ..."
AgentError(b) == [type |-> "ValueError", names |-> {NameOf(b)}]

\* the TypeError of msg['message'] on a str: "string indices must be integers"
SubscriptError == [type |-> "TypeError", names |-> {}]

\* the ValueError of check(): every text has "network {self.name}" in it but
\* that of step 1, "*external* is a reserved keyword ..."
CheckError(c, name) ==
    [type |-> "ValueError", names |-> IF CheckReserved(c) THEN {} ELSE {name}]

\* raise RuntimeError(f"Network '{self.name}' failed during execution: {e}")
Wrapped(name, e) == [type |-> "RuntimeError", names |-> {name} \cup e.names]

\* leave the loop on the first producer's sentinel (variant of MergeDone)
MergeDoneOnFirst(seen) == Cardinality(seen) >= 1

\* the test of the merging receiver for leaving its loop
MergeDone(seen) == Cardinality(seen) = NumProducers

\* a repeated sentinel ends the loop (variant of MergeStep)
MergeStepRepeatBreaks(seen, m) ==
    IF m.message # STOP
    THEN [append |-> <<Plain(m.message)>>, seen |-> seen, brk |-> FALSE]
    ELSE [append |-> <<>>, seen |-> seen \cup {m.sender}, brk |-> m.sender \in seen]

\* one iteration of receiver_run of test_merge_agent on message m:
\* what is appended to received, the new received_stop_from, whether it breaks
MergeStep(seen, m) ==
    IF m.message # STOP
    THEN [append |-> <<Plain(m.message)>>, seen |-> seen, brk |-> FALSE]
    ELSE IF m.sender \notin seen
    THEN [append |-> <<>>, seen |-> seen \cup {m.sender},
          brk |-> MergeDone(seen \cup {m.sender})]
    ELSE [append |-> <<>>, seen |-> seen, brk |-> FALSE]

\* a loop that handles the sentinel as a message and goes on (variant of PlainStep)
PlainStepNeverBreaks(m) ==
    [append |-> <<m>>, brk |-> FALSE]

\* a loop that hands the sentinel to the handler before it stops
PlainStepHandlesSentinel(m) ==
    [append |-> <<m>>, brk |-> IsSentinel(m)]

\* one iteration of the loop of SimpleAgent.run / receiver_run on message m
PlainStep(m) ==
    IF IsSentinel(m)
    THEN [append |-> <<>>, brk |-> TRUE]
    ELSE [append |-> <<m>>, brk |-> FALSE]

----------------------------------------------------------------------------
\* The state machine.

Init ==
    /\ cfg \in Configs
    /\ netpc = "new"
    /\ in_q = InitInQ
    /\ out_q = InitOutQ
    /\ net_in_q = <<>>
    /\ net_out_q = <<>>
    /\ queue = [q \in QueueIds |-> <<>>]
    /\ checkLog = <<>>
    /\ cur = 1
    /\ cpc = [b \in Agents |-> "idle"]
    /\ ip = [b \in Agents |-> 1]
    /\ received = [b \in Agents |-> <<>>]
    /\ stops = [b \in Agents |-> {}]
    /\ consumed = [b \in Agents |-> <<>>]
    /\ opc = "new"
    /\ ocur = 1
    /\ err = NoError
    /\ calls = <<>>

\* Network(...): __init__ wires the ports; a ValueError leaves no network
Construct ==
    /\ netpc = "new"
    /\ LET w == ConnectPorts(cfg, out_q)
       IN  /\ out_q' = w.out_q
           /\ in_q' = w.cin
           /\ net_in_q' = w.in_q
           /\ net_out_q' = w.nout_q
           /\ netpc' = IF w.ok THEN "built" ELSE "construct_failed"
    /\ UNCHANGED <<err, calls, cfg, queue, checkLog, cur, cpc, ip, received, stops, consumed,
                   opc, ocur>>

\* Network(...) of the enclosing network, with the built network as a child
ConstructOuter ==
    /\ Nested(cfg)
    /\ netpc = "built"
    /\ opc = "new"
    /\ LET w == ConnectOuter(cfg, out_q, net_in_q, net_out_q)
       IN  /\ out_q' = w.out_q
           /\ in_q' = w.cin
           /\ net_in_q' = w.iin
           /\ net_out_q' = w.iout
           /\ opc' = IF w.ok THEN "built" ELSE "construct_failed"
    /\ UNCHANGED <<err, calls, cfg, netpc, queue, checkLog, cur, cpc, ip, received, stops,
                   consumed, ocur>>

\* a check() that clears the outport slots it has validated (variant of CheckCall)
CheckCallUnwires ==
    /\ netpc = "built"
    /\ Len(checkLog) < MaxChecks
    /\ checkLog' = Append(checkLog, Check(cfg))
    /\ out_q' = InitOutQ
    /\ UNCHANGED <<err, calls, in_q, cfg, netpc, net_in_q, net_out_q, queue, cur, cpc, ip,
                   received, stops, consumed, opc, ocur>>

\* net.check() called by the driver on a built network
CheckCall ==
    /\ netpc = "built"
    /\ Len(checkLog) < MaxChecks
    /\ checkLog' = Append(checkLog, Check(cfg))
    /\ UNCHANGED <<err, calls, in_q, cfg, netpc, out_q, net_in_q, net_out_q, queue, cur, cpc, ip,
                   received, stops, consumed, opc, ocur>>

\* the child whose run() the loop of the enclosing network's run is in
OuterAt(b) ==
    /\ opc = "running"
    /\ ocur <= Len(cfg.outer.order)
    /\ cfg.outer.order[ocur] = b

\* run() of the enclosing network up to its loop
RunOuter ==
    /\ opc = "built"
    /\ opc' = IF Check(OuterNet(cfg)) # "ok" THEN "check_failed"
              ELSE IF Len(cfg.outer.order) = 0 THEN "done"
              ELSE "running"
    /\ err' = IF Check(OuterNet(cfg)) # "ok" THEN CheckError(OuterNet(cfg), OuterName)
              ELSE err
    /\ UNCHANGED <<calls, in_q, cfg, netpc, out_q, net_in_q, net_out_q, queue, checkLog, cur, cpc,
                   ip, received, stops, consumed, ocur>>

\* net.run() up to its loop: self.check() raises, or the loop is entered.
\* It is called by the driver, or, for a child network, by the loop of the
\* enclosing network's run.
Run ==
    /\ netpc = "built"
    /\ Nested(cfg) => OuterAt(Inner)
    /\ netpc' = IF Check(cfg) # "ok" THEN "check_failed"
                ELSE IF Len(cfg.order) = 0 THEN "done"
                ELSE "running"
    /\ err' = IF Check(cfg) # "ok" THEN CheckError(cfg, NetName) ELSE err
    /\ UNCHANGED <<calls, in_q, cfg, out_q, net_in_q, net_out_q, queue, checkLog, cur, cpc, ip,
                   received, stops, consumed, opc, ocur>>

\* every block's run() executes as a task of its own (variant of Runnable)
RunnableConcurrently(b) ==
    /\ netpc = "running"
    /\ b \in Blocks(cfg)

\* the loop over the blocks placed before self.check() (variant of Runnable)
RunnableBeforeCheck(b) ==
    /\ netpc \in {"built", "running"}
    /\ cur <= Len(cfg.order)
    /\ cfg.order[cur] = b

\* the block whose run() the loop of Network.run is in: one at a time, in
\* blocks-map order, each called only when the one before it has returned
Runnable(b) ==
    \/ /\ netpc = "running"
       /\ cur <= Len(cfg.order)
       /\ cfg.order[cur] = b
    \/ OuterAt(b)

\* run() returns as soon as one block's run() has returned (variant of NetAfterReturn)
NetAfterFirstReturn == "done"

\* block.run() returned: the loop goes to the next block, or run() returns
NetAfterReturn == IF cur >= Len(cfg.order) THEN "done" ELSE netpc

\* the same for the loop of the enclosing network's run
OuterAfterReturn == IF ocur >= Len(cfg.outer.order) THEN "done" ELSE opc

\* block.run() raised: run() raises RuntimeError
NetAfterRaise == "run_failed"

\* whether agent b is a child of the enclosing network
AtOuter(b) == b \in Range(cfg.outer.order)

\* run() of agent b returns to the loop that called it
Returns(b) ==
    IF AtOuter(b)
    THEN /\ ocur' = ocur + 1
         /\ opc' = OuterAfterReturn
         /\ UNCHANGED <<cur, netpc, err>>
    ELSE /\ cur' = cur + 1
         /\ netpc' = NetAfterReturn
         /\ UNCHANGED <<ocur, opc, err>>

\* a failing block is skipped and the loop goes on to the next one (variant of Raises)
RaisesAndGoesOn(b, e) ==
    IF AtOuter(b)
    THEN /\ ocur' = ocur + 1
         /\ opc' = OuterAfterReturn
         /\ err' = Wrapped(OuterName, e)
         /\ UNCHANGED <<cur, netpc>>
    ELSE /\ cur' = cur + 1
         /\ netpc' = NetAfterReturn
         /\ err' = Wrapped(NetName, e)
         /\ UNCHANGED <<ocur, opc>>

\* run() of agent b raises e into the loop that called it, whose except
\* clause raises the RuntimeError
Raises(b, e) ==
    IF AtOuter(b)
    THEN /\ opc' = NetAfterRaise
         /\ err' = Wrapped(OuterName, e)
         /\ UNCHANGED <<cur, netpc, ocur>>
    ELSE /\ netpc' = NetAfterRaise
         /\ err' = Wrapped(NetName, e)
         /\ UNCHANGED <<cur, ocur, opc>>

\* run() of an agent goes on
Continues == UNCHANGED <<cur, netpc, ocur, opc, err>>

\* run() of the child network has ended: its return lets the loop of the
\* enclosing network go on, its exception becomes a RuntimeError there
InnerReturns ==
    /\ OuterAt(Inner)
    /\ netpc \in {"done", "check_failed", "run_failed"}
    /\ IF netpc = "done"
       THEN /\ ocur' = ocur + 1
            /\ opc' = OuterAfterReturn
            /\ err' = err
       ELSE /\ opc' = NetAfterRaise
            /\ ocur' = ocur
            /\ err' = Wrapped(OuterName, err)
    /\ UNCHANGED <<calls, in_q, cfg, netpc, out_q, net_in_q, net_out_q, queue, checkLog, cur, cpc,
                   ip, received, stops, consumed>>

\* the loop of Network.run calls block.run()
StartChild(b) ==
    /\ Runnable(b)
    /\ cpc[b] = "idle"
    /\ cpc' = [cpc EXCEPT ![b] = "init"]
    /\ UNCHANGED <<err, calls, in_q, cfg, netpc, out_q, net_in_q, net_out_q, queue, checkLog, cur, ip,
                   received, stops, consumed, opc, ocur>>

\* self.send(msg, "out") for the next message of the script
Send(b) ==
    /\ Runnable(b)
    /\ cpc[b] = "init"
    /\ ip[b] <= Len(cfg.script[b])
    /\ LET ok == SendResult(b, "out") = "ok"
           m == Message(cfg, b, cfg.script[b][ip[b]])
       IN  /\ queue' = IF ok THEN [queue EXCEPT ![out_q[b]["out"]] = QPut(@, m)]
                       ELSE queue
           /\ ip' = IF ok THEN [ip EXCEPT ![b] = @ + 1] ELSE ip
           /\ cpc' = IF ok THEN cpc ELSE [cpc EXCEPT ![b] = "failed"]
           /\ IF ok THEN Continues ELSE Raises(b, AgentError(b))
    /\ UNCHANGED <<calls, in_q, cfg, out_q, net_in_q, net_out_q, checkLog, received, stops,
                   consumed>>

\* the sends are over: run returns (no handler) or enters its receive loop
EndInit(b) ==
    /\ Runnable(b)
    /\ cpc[b] = "init"
    /\ ip[b] > Len(cfg.script[b])
    /\ LET ret == Loop(cfg, b) = "none"
       IN  /\ cpc' = [cpc EXCEPT ![b] = IF ret THEN "done" ELSE "loop"]
           /\ IF ret THEN Returns(b) ELSE Continues
    /\ UNCHANGED <<calls, in_q, cfg, out_q, net_in_q, net_out_q, queue, checkLog, ip, received,
                   stops, consumed>>

\* one iteration of while True: msg = self.recv("in"); ...  of the plain loop.
\* recv blocks while the queue is empty.
Recv(b) ==
    /\ Runnable(b)
    /\ cpc[b] = "loop"
    /\ Loop(cfg, b) = "plain"
    /\ IF RecvResult(b, "in") # "ok"
       THEN /\ cpc' = [cpc EXCEPT ![b] = "failed"]
            /\ Raises(b, AgentError(b))
            /\ UNCHANGED <<queue, received, consumed>>
       ELSE /\ queue[in_q[b]["in"]] # <<>>
            /\ LET m == QGet(queue[in_q[b]["in"]])
                   r == PlainStep(m)
               IN  /\ queue' = [queue EXCEPT ![in_q[b]["in"]] = QRest(@)]
                   /\ consumed' = [consumed EXCEPT ![b] = Append(@, m)]
                   /\ received' = [received EXCEPT ![b] = @ \o r.append]
                   /\ cpc' = [cpc EXCEPT ![b] = IF r.brk THEN "done" ELSE "loop"]
                   /\ IF r.brk THEN Returns(b) ELSE Continues
    /\ UNCHANGED <<calls, in_q, cfg, out_q, net_in_q, net_out_q, checkLog, ip, stops>>

\* one iteration of the loop of the merging receiver_run; msg['message'] on a
\* message that is a bare string raises TypeError
RecvMerge(b) ==
    /\ Runnable(b)
    /\ cpc[b] = "loop"
    /\ Loop(cfg, b) = "merge"
    /\ IF RecvResult(b, "in") # "ok"
       THEN /\ cpc' = [cpc EXCEPT ![b] = "failed"]
            /\ Raises(b, AgentError(b))
            /\ UNCHANGED <<queue, received, consumed, stops>>
       ELSE /\ queue[in_q[b]["in"]] # <<>>
            /\ LET m == QGet(queue[in_q[b]["in"]])
                   r == MergeStep(stops[b], m)
               IN  /\ queue' = [queue EXCEPT ![in_q[b]["in"]] = QRest(@)]
                   /\ consumed' = [consumed EXCEPT ![b] = Append(@, m)]
                   /\ IF ~IsTagged(m)
                      THEN /\ cpc' = [cpc EXCEPT ![b] = "failed"]
                           /\ Raises(b, SubscriptError)
                           /\ UNCHANGED <<received, stops>>
                      ELSE /\ received' = [received EXCEPT ![b] = @ \o r.append]
                           /\ stops' = [stops EXCEPT ![b] = r.seen]
                           /\ cpc' = [cpc EXCEPT ![b] = IF r.brk THEN "done" ELSE "loop"]
                           /\ IF r.brk THEN Returns(b) ELSE Continues
    /\ UNCHANGED <<calls, in_q, cfg, out_q, net_in_q, net_out_q, checkLog, ip>>

Next ==
    \/ Construct
    \/ ConstructOuter
    \/ CheckCall
    \/ RunOuter
    \/ Run
    \/ InnerReturns
    \/ \E b \in Agents : StartChild(b)
    \/ \E b \in Agents : Send(b)
    \/ \E b \in Agents : EndInit(b)
    \/ \E b \in Agents : Recv(b)
    \/ \E b \in Agents : RecvMerge(b)

\* Network.run is straight-line code in one thread: while a step of it (or
\* of the child it is in) can be taken, one is taken
FairSpec == Init /\ [][Next]_vars /\ WF_vars(Next)

Spec == Init /\ [][Next]_vars

----------------------------------------------------------------------------
\* The methods of the agents called by the driver itself, outside any run():
\* SimpleAgent(...), agent.send(msg, port) and agent.recv(port), on agents
\* that a Network(...) has wired or that nothing has wired, with messages of
\* earlier sends in the receiver's queue.

MaxCalls == 2

\* inport= left out of SimpleAgent(...): None, as falsy as ''
NoInport == ""

\* the port names the driver passes
CallPorts == {"in", "out"}

\* the messages the driver sends
CallMessages == {Plain("a"), Plain("b")}

\* the msg of a call that passes or returns none
NoMessage == Plain("-")

\* one entry of calls
Call(op, b, port, handler, msg, result) ==
    [op |-> op, agent |-> b, port |-> port, handler |-> handler, msg |-> msg,
     result |-> result]

\* SimpleAgent.__init__ accepting a handler without an inport (variant of
\* SimpleAgentInit)
SimpleAgentInitUnguarded(inport, handler) == "ok"

\* SimpleAgent.__init__: if handle_msg and not inport: raise ValueError
SimpleAgentInit(inport, handler) ==
    IF handler /\ inport = NoInport THEN "ValueError" ELSE "ok"

\* sender -> receiver, or the two agents and no connection
CallConfigs ==
    {[order |-> <<"sender", "receiver">>, conns |-> cs, inports |-> {}, outports |-> {},
      script |-> NoScript, tagged |-> FALSE, loop |-> "plain", outer |-> NoOuter] :
        cs \in {<<>>, <<Wire("sender")>>}}

AgentInit ==
    /\ cfg \in CallConfigs
    /\ netpc = "built"
    /\ in_q = InitInQ
    /\ out_q = ConnectPorts(cfg, InitOutQ).out_q
    /\ net_in_q = <<>>
    /\ net_out_q = <<>>
    /\ \E s \in BSeq(CallMessages, MaxLen) :
          queue = [q \in QueueIds |-> IF q = InQ("receiver", "in") THEN s ELSE <<>>]
    /\ checkLog = <<>>
    /\ cur = 1
    /\ cpc = [b \in Agents |-> "idle"]
    /\ ip = [b \in Agents |-> 1]
    /\ received = [b \in Agents |-> <<>>]
    /\ stops = [b \in Agents |-> {}]
    /\ consumed = [b \in Agents |-> <<>>]
    /\ opc = "new"
    /\ ocur = 1
    /\ err = NoError
    /\ calls = <<>>

\* SimpleAgent(inport=..., handle_msg=...)
NewSimpleAgent(inport, handler) ==
    /\ Len(calls) < MaxCalls
    /\ calls' = Append(calls, Call("new", "-", inport, handler, NoMessage,
                                   SimpleAgentInit(inport, handler)))
    /\ UNCHANGED <<in_q, cfg, netpc, out_q, net_in_q, net_out_q, queue, checkLog, cur, cpc,
                   ip, received, stops, consumed, opc, ocur, err>>

\* b.send(m, port)
AgentSend(b, port, m) ==
    /\ Len(calls) < MaxCalls
    /\ LET res == SendResult(b, port)
       IN  /\ queue' = IF res = "ok"
                       THEN [queue EXCEPT ![out_q[b][port]] = QPut(@, m)]
                       ELSE queue
           /\ calls' = Append(calls, Call("send", b, port, FALSE, m, res))
    /\ UNCHANGED <<in_q, cfg, netpc, out_q, net_in_q, net_out_q, checkLog, cur, cpc, ip,
                   received, stops, consumed, opc, ocur, err>>

\* b.recv(port): raises, or waits in get() until the queue has a message
AgentRecv(b, port) ==
    /\ Len(calls) < MaxCalls
    /\ IF RecvResult(b, port) # "ok"
       THEN /\ calls' = Append(calls, Call("recv", b, port, FALSE, NoMessage,
                                           "ValueError"))
            /\ queue' = queue
       ELSE /\ queue[in_q[b][port]] # <<>>
            /\ calls' = Append(calls, Call("recv", b, port, FALSE,
                                           QGet(queue[in_q[b][port]]), "ok"))
            /\ queue' = [queue EXCEPT ![in_q[b][port]] = QRest(@)]
    /\ UNCHANGED <<in_q, cfg, netpc, out_q, net_in_q, net_out_q, checkLog, cur, cpc, ip,
                   received, stops, consumed, opc, ocur, err>>

AgentNext ==
    \/ \E inport \in {NoInport, "in"}, handler \in BOOLEAN : NewSimpleAgent(inport, handler)
    \/ \E b \in {"sender", "receiver"}, port \in CallPorts, m \in CallMessages :
          AgentSend(b, port, m)
    \/ \E b \in {"sender", "receiver"}, port \in CallPorts : AgentRecv(b, port)

AgentSpec == AgentInit /\ [][AgentNext]_vars

----------------------------------------------------------------------------
\* The process-per-agent variant (agent.py, minimal_agent_framework_with_peers.py):
\* every Agent owns one queue, self.queue; the sender's init_fn puts its
\* messages and then the sentinel on the queue of its peer, the receiver;
\* the main program starts each agent's run() as a process of its own
\* (agent.start()) and then joins them.  Here cfg.order is the order in which
\* the main program starts the agents, cpc[b] = "idle" is a process not yet
\* started, and netpc is where the main program is: new (starting the
\* processes), joining, done.

\* self.queue of agent b
OwnQueue(b) == <<b, "queue">>

\* self.peers["Receiver"].queue: where the sender's init_fn puts
PeerQueue == OwnQueue("receiver")

\* the main programs: payloads and then the sentinel, either start order
ProcConfigs ==
    {[order |-> o, conns |-> <<>>, inports |-> {}, outports |-> {},
      script |-> [NoScript EXCEPT !["sender"] = s \o <<STOP>>], tagged |-> FALSE,
      loop |-> "plain", outer |-> NoOuter] :
        o \in Orders2, s \in BSeq({"a", "b"}, MaxLen)}

ProcInit ==
    /\ cfg \in ProcConfigs
    /\ netpc = "new"
    /\ in_q = InitInQ
    /\ out_q = InitOutQ
    /\ net_in_q = <<>>
    /\ net_out_q = <<>>
    /\ queue = [q \in {OwnQueue(b) : b \in {"sender", "receiver"}} |-> <<>>]
    /\ checkLog = <<>>
    /\ cur = 1
    /\ cpc = [b \in Agents |-> "idle"]
    /\ ip = [b \in Agents |-> 1]
    /\ received = [b \in Agents |-> <<>>]
    /\ stops = [b \in Agents |-> {}]
    /\ consumed = [b \in Agents |-> <<>>]
    /\ opc = "new"
    /\ ocur = 1
    /\ err = NoError
    /\ calls = <<>>

\* main: agent.start() for the next agent; after the last one it goes to the joins
ProcStart ==
    /\ netpc = "new"
    /\ cur <= Len(cfg.order)
    /\ cpc' = [cpc EXCEPT ![cfg.order[cur]] = "init"]
    /\ cur' = IF cur = Len(cfg.order) THEN 1 ELSE cur + 1
    /\ netpc' = IF cur = Len(cfg.order) THEN "joining" ELSE "new"
    /\ UNCHANGED <<in_q, cfg, out_q, net_in_q, net_out_q, queue, checkLog, ip, received,
                   stops, consumed, opc, ocur, err, calls>>

\* main: proc.join() returns when that process has ended
ProcJoin ==
    /\ netpc = "joining"
    /\ cur <= Len(cfg.order)
    /\ cpc[cfg.order[cur]] = "done"
    /\ cur' = cur + 1
    /\ netpc' = IF cur = Len(cfg.order) THEN "done" ELSE "joining"
    /\ UNCHANGED <<in_q, cfg, out_q, net_in_q, net_out_q, queue, checkLog, cpc, ip, received,
                   stops, consumed, opc, ocur, err, calls>>

\* init_fn: self.peers["Receiver"].queue.put(...) for the next message
ProcPut(b) ==
    /\ cpc[b] = "init"
    /\ ip[b] <= Len(cfg.script[b])
    /\ queue' = [queue EXCEPT ![PeerQueue] = QPut(@, Plain(cfg.script[b][ip[b]]))]
    /\ ip' = [ip EXCEPT ![b] = @ + 1]
    /\ UNCHANGED <<in_q, cfg, netpc, out_q, net_in_q, net_out_q, checkLog, cur, cpc, received,
                   stops, consumed, opc, ocur, err, calls>>

\* init_fn is over (or there is none): return without a handler, else loop
ProcEndInit(b) ==
    /\ cpc[b] = "init"
    /\ ip[b] > Len(cfg.script[b])
    /\ cpc' = [cpc EXCEPT ![b] = IF Loop(cfg, b) = "none" THEN "done" ELSE "loop"]
    /\ UNCHANGED <<in_q, cfg, netpc, out_q, net_in_q, net_out_q, queue, checkLog, cur, ip,
                   received, stops, consumed, opc, ocur, err, calls>>

\* one iteration of while True: msg = self.queue.get(); ...
ProcGet(b) ==
    /\ cpc[b] = "loop"
    /\ queue[OwnQueue(b)] # <<>>
    /\ LET m == QGet(queue[OwnQueue(b)])
           r == PlainStep(m)
       IN  /\ queue' = [queue EXCEPT ![OwnQueue(b)] = QRest(@)]
           /\ consumed' = [consumed EXCEPT ![b] = Append(@, m)]
           /\ received' = [received EXCEPT ![b] = @ \o r.append]
           /\ cpc' = [cpc EXCEPT ![b] = IF r.brk THEN "done" ELSE "loop"]
    /\ UNCHANGED <<in_q, cfg, netpc, out_q, net_in_q, net_out_q, checkLog, cur, ip, stops,
                   opc, ocur, err, calls>>

\* the steps of the process of agent b
ProcStep(b) == ProcPut(b) \/ ProcEndInit(b) \/ ProcGet(b)

ProcNext ==
    \/ ProcStart
    \/ ProcJoin
    \/ \E b \in {"sender", "receiver"} : ProcPut(b)
    \/ \E b \in {"sender", "receiver"} : ProcEndInit(b)
    \/ \E b \in {"sender", "receiver"} : ProcGet(b)

\* the operating system lets the main program and every started process run
\* again and again while it can take a step
ProcSpec ==
    /\ ProcInit
    /\ [][ProcNext]_vars
    /\ WF_vars(ProcStart \/ ProcJoin)
    /\ WF_vars(ProcStep("sender"))
    /\ WF_vars(ProcStep("receiver"))

----------------------------------------------------------------------------
\* Block.__init__ on its port lists, as Agent(...), SimpleAgent(...) and
\* Network(...) call it.  Here cfg is the constructor call: the class and the
\* inports and outports lists it is given.

MaxPorts == 2

\* the names the lists are made of
PortNames == {"in", "out", "x"}

\* len(set(ports)) != len(ports)
HasRepeat(ports) == Cardinality(Range(ports)) # Len(ports)

\* a test for repeats that looks at the inports only (variant of BlockInit)
BlockInitInportsOnly(inports, outports) ==
    IF HasRepeat(inports) THEN "ValueError" ELSE "ok"

\* Block.__init__: the two duplicate tests
BlockInit(inports, outports) ==
    IF HasRepeat(inports) THEN "ValueError"
    ELSE IF HasRepeat(outports) THEN "ValueError"
    ELSE "ok"

\* the inports list the class hands to Block.__init__: SimpleAgent takes one
\* inport, `[inport] if inport else []` (here the first name of the list)
InportsOf(kind, inports) ==
    IF kind = "SimpleAgent" /\ inports # <<>> THEN <<inports[1]>> ELSE inports

BlockCalls ==
    [kind : {"Agent", "SimpleAgent", "Network"},
     inports : BSeq(PortNames, MaxPorts), outports : BSeq(PortNames, MaxPorts)]

BlockSpecInit ==
    /\ cfg \in BlockCalls
    /\ netpc = "new"
    /\ in_q = InitInQ
    /\ out_q = InitOutQ
    /\ net_in_q = <<>>
    /\ net_out_q = <<>>
    /\ queue = [q \in QueueIds |-> <<>>]
    /\ checkLog = <<>>
    /\ cur = 1
    /\ cpc = [b \in Agents |-> "idle"]
    /\ ip = [b \in Agents |-> 1]
    /\ received = [b \in Agents |-> <<>>]
    /\ stops = [b \in Agents |-> {}]
    /\ consumed = [b \in Agents |-> <<>>]
    /\ opc = "new"
    /\ ocur = 1
    /\ err = NoError
    /\ calls = <<>>

\* the constructor call is made
NewBlock ==
    /\ calls = <<>>
    /\ calls' = <<[op |-> cfg.kind, inports |-> InportsOf(cfg.kind, cfg.inports),
                   outports |-> cfg.outports,
                   result |-> BlockInit(InportsOf(cfg.kind, cfg.inports), cfg.outports)]>>
    /\ UNCHANGED <<in_q, cfg, netpc, out_q, net_in_q, net_out_q, queue, checkLog, cur,
                   cpc, ip, received, stops, consumed, opc, ocur, err>>

BlockNext == NewBlock

BlockSpec == BlockSpecInit /\ [][BlockNext]_vars

----------------------------------------------------------------------------
\* Vocabulary of the claims.

IsPrefix(s, t) == Len(s) <= Len(t) /\ \A i \in 1..Len(s) : s[i] = t[i]

\* the messages block b has passed to send() so far, in order
SentBy(b) == [i \in 1..(ip[b] - 1) |-> Message(cfg, b, cfg.script[b][i])]

\* the messages of s that come before its first sentinel
RECURSIVE BeforeSentinel(_)
BeforeSentinel(s) ==
    IF s = <<>> \/ IsSentinel(Head(s)) THEN <<>>
    ELSE <<Head(s)>> \o BeforeSentinel(Tail(s))

\* a script that is payloads followed by exactly one STOP, at its end
PayloadsThenStop(s) ==
    /\ Len(s) >= 1
    /\ s[Len(s)] = STOP
    /\ \A i \in 1..(Len(s) - 1) : s[i] # STOP

\* the position of block b in the blocks map
Pos(b) == CHOOSE i \in DOMAIN cfg.order : cfg.order[i] = b

\* the network of the round-trip tests: sender and receiver, one connection
TwoNode == Blocks(cfg) = {"sender", "receiver"} /\ cfg.conns = <<Wire("sender")>>

\* the network of the merge test: two senders wired to the receiver's inport
FanIn ==
    /\ Blocks(cfg) = Children
    /\ Range(cfg.conns) = {Wire("sender"), Wire("sender2")}
    /\ Len(cfg.conns) = 2

\* run() has got past check()
Executing == netpc \in {"running", "done", "run_failed"}

NoChildStarted == \A b \in Agents : cpc[b] = "idle"

\* C1: in the two-child network with the single connection (sender, out,
\* receiver, in), what the receiver's loop has received is at every moment a
\* prefix of the messages the sender has sent before its sentinel, and once
\* the receiver has stopped on the sentinel, or has drained the queue of a
\* sender that has returned, it is exactly that sequence: nothing lost,
\* duplicated or reordered.
C1_RoundTripDelivery ==
    (TwoNode /\ cfg.loop = "plain") =>
        /\ IsPrefix(received["receiver"], BeforeSentinel(SentBy("sender")))
        /\ cpc["receiver"] = "done" =>
               received["receiver"] = BeforeSentinel(SentBy("sender"))
        /\ (cpc["sender"] = "done" /\ cpc["receiver"] = "loop"
              /\ queue[InQ("receiver", "in")] = <<>>) =>
               received["receiver"] = BeforeSentinel(SentBy("sender"))

\* C1 witness: the receiver has stopped on the sentinel after receiving two
\* different messages.
C1_Witness ==
    /\ TwoNode
    /\ cfg.loop = "plain"
    /\ cpc["receiver"] = "done"
    /\ Len(received["receiver"]) >= 2
    /\ received["receiver"][1] # received["receiver"][2]

\* C2: in a sender -> receiver network whose sender sends finitely many
\* messages and then the sentinel, run() terminates with all messages
\* delivered whatever the order of the two children in the blocks map: run()
\* never stops short of its end, and at its end the receiver holds every
\* message.
C2_RunTerminatesInEitherOrder ==
    (TwoNode /\ cfg.loop = "plain" /\ ~cfg.tagged
       /\ PayloadsThenStop(cfg.script["sender"])) =>
        /\ netpc = "running" => ENABLED Next
        /\ netpc = "done" =>
               Len(received["receiver"]) = Len(cfg.script["sender"]) - 1

\* the block at position i waits in recv on its empty inport, and every
\* connection into that inport comes from a block listed after it
BlockedOnLaterChild(i) ==
    LET b == cfg.order[i]
    IN  /\ netpc = "running"
        /\ cpc[b] = "loop"
        /\ queue[InQ(b, "in")] = <<>>
        /\ \E k \in DOMAIN cfg.conns : cfg.conns[k][3] = b /\ cfg.conns[k][4] = "in"
        /\ \A k \in DOMAIN cfg.conns :
               (cfg.conns[k][3] = b /\ cfg.conns[k][4] = "in") =>
                   (cfg.conns[k][1] \in Blocks(cfg) /\ Pos(cfg.conns[k][1]) > i)

\* C3: with the children's run() called one after the other in blocks-map
\* order, a child that waits in recv on an empty inport fed only by children
\* listed after it waits forever: no step of the program is possible, and
\* no later child has been started.
C3_SequentialRunDeadlocks ==
    \A i \in DOMAIN cfg.order :
        BlockedOnLaterChild(i) =>
            /\ ~ENABLED Next
            /\ \A j \in DOMAIN cfg.order : j > i => cpc[cfg.order[j]] = "idle"

\* C3 witness: the receiver, listed first, waits on its empty inport.
C3_Witness == \E i \in DOMAIN cfg.order : BlockedOnLaterChild(i)

\* C4: the ports are wired inside run, after check() has succeeded: no
\* outport slot holds a queue unless run has got past its validation.
C4_WiringOnlyAfterCheck ==
    (\E b \in Agents : \E p \in DOMAIN out_q[b] : out_q[b][p] # None) => Executing

\* some internal connection names a source port its block does not declare
UndeclaredSourcePort ==
    \E k \in DOMAIN cfg.conns :
        /\ cfg.conns[k][1] \in Blocks(cfg)
        /\ cfg.conns[k][3] \in Blocks(cfg)
        /\ cfg.conns[k][2] \notin Outports(cfg.conns[k][1])

\* C5: a network whose connection list names an undeclared source port can be
\* built, and check() on it then ends with a ValueError.
C5_UnknownPortBuildsThenCheckFails ==
    UndeclaredSourcePort =>
        /\ netpc # "construct_failed"
        /\ \A k \in DOMAIN checkLog : checkLog[k] = "ValueError"

\* C6: when a connection list is rejected, by the wiring or by the
\* validation, every child's out_q is as it was before the network was
\* built.
C6_NoPartialWiring ==
    netpc \in {"construct_failed", "check_failed"} => out_q = InitOutQ

\* C7: when check() raises inside run, no child's run() has been invoked and
\* no message has been put on any queue.
C7_CheckFailureAbortsRun ==
    netpc = "check_failed" =>
        /\ NoChildStarted
        /\ \A q \in QueueIds : queue[q] = <<>>
        /\ \A b \in Agents : ip[b] = 1

\* C7 witness: run has ended in the ValueError of check().
C7_Witness == netpc = "check_failed" /\ Check(cfg) = "ValueError"

\* the number of connections whose source is outport p of block b
SourceCount(b, p) ==
    Cardinality({k \in DOMAIN cfg.conns : cfg.conns[k][1] = b /\ cfg.conns[k][2] = p})

OutportNotConnectedOnce ==
    \E b \in Blocks(cfg) : \E p \in Outports(b) : SourceCount(b, p) # 1

\* C8: in a network where some child's declared outport is the source of no
\* connection or of two or more, check() raises, run() never gets past it and
\* no child's run() is invoked.
C8_SingleOutportInvariant ==
    OutportNotConnectedOnce =>
        /\ Check(cfg) = "ValueError"
        /\ ~Executing
        /\ NoChildStarted

\* C8 witness: run has failed on a network whose sender's outport is the
\* source of two connections.
C8_Witness ==
    /\ netpc = "check_failed"
    /\ SourceCount("sender", "out") >= 2

\* the payloads of block b's script, as the receiver appends them
Payloads(b) == {Plain(cfg.script[b][i]) : i \in {k \in DOMAIN cfg.script[b] : cfg.script[b][k] # STOP}}

MergeNetwork ==
    /\ FanIn
    /\ cfg.tagged
    /\ cfg.loop = "merge"

\* C9: two producers wired to the same inport, each sending tagged payloads
\* and then its tagged sentinel: when the merging consumer has terminated,
\* the set of payloads it has received is the union of the payloads both
\* producers sent.
C9_FanInDeliversUnion ==
    (MergeNetwork /\ PayloadsThenStop(cfg.script["sender"])
       /\ PayloadsThenStop(cfg.script["sender2"]) /\ cpc["receiver"] = "done") =>
        Range(received["receiver"]) = Payloads("sender") \cup Payloads("sender2")

\* C9 witness: the consumer has terminated holding a payload of each producer.
C9_Witness ==
    /\ MergeNetwork
    /\ PayloadsThenStop(cfg.script["sender"])
    /\ PayloadsThenStop(cfg.script["sender2"])
    /\ cpc["receiver"] = "done"
    /\ {Plain("a"), Plain("c")} \subseteq Range(received["receiver"])

\* the senders of the tagged sentinels among the messages s
SentinelSenders(s) == {s[i].sender : i \in {k \in DOMAIN s : IsTagged(s[k]) /\ s[k].message = STOP}}

\* C10: the merging consumer terminates only when it has received a sentinel
\* tagged by each of two distinct producers, and on the first sentinel of the
\* second one; the producers it records as finished are exactly the senders
\* of the sentinels it has received, so a repeated sentinel adds nothing and
\* ends nothing.
C10_FanInTermination ==
    cfg.loop = "merge" =>
        LET got == consumed["receiver"]
        IN  /\ stops["receiver"] = SentinelSenders(got)
            /\ cpc["receiver"] = "done" =>
                   /\ Cardinality(SentinelSenders(got)) = 2
                   /\ got[Len(got)].message = STOP
                   /\ got[Len(got)].sender \notin
                          SentinelSenders(SubSeq(got, 1, Len(got) - 1))

\* C10 witness: the consumer has terminated after receiving the same
\* producer's sentinel twice.
C10_Witness ==
    /\ cfg.loop = "merge"
    /\ cpc["receiver"] = "done"
    /\ \E i, j \in DOMAIN consumed["receiver"] :
           /\ i < j
           /\ consumed["receiver"][i] = consumed["receiver"][j]
           /\ consumed["receiver"][i].message = STOP

\* the messages of s that carry the tag of sender b
RECURSIVE FromSender(_, _)
FromSender(s, b) ==
    IF s = <<>> THEN <<>>
    ELSE (IF Head(s).sender = b THEN <<Head(s)>> ELSE <<>>) \o FromSender(Tail(s), b)

NumSentinels(s) == Cardinality({i \in DOMAIN s : IsSentinel(s[i])})

\* C12: the handler of a handler-loop agent has been invoked exactly on the
\* messages it received before the first sentinel, once each and in arrival
\* order, never on the sentinel; the loop has terminated exactly when a
\* sentinel has been received, and that sentinel is the last message it
\* received.
C12_HandlerLoopDispatch ==
    cfg.loop = "plain" =>
        LET got == consumed["receiver"]
        IN  /\ received["receiver"] = BeforeSentinel(got)
            /\ \A i \in DOMAIN received["receiver"] : ~IsSentinel(received["receiver"][i])
            /\ cpc["receiver"] = "done" <=> NumSentinels(got) >= 1
            /\ cpc["receiver"] = "done" =>
                   (NumSentinels(got) = 1 /\ IsSentinel(got[Len(got)]))

\* C12 witness: the loop has terminated on the sentinel after two handler
\* invocations, with messages still queued behind the sentinel.
C12_Witness ==
    /\ cfg.loop = "plain"
    /\ cpc["receiver"] = "done"
    /\ Len(received["receiver"]) >= 2
    /\ queue[InQ("receiver", "in")] # <<>>

\* every connection names blocks of the network (or its boundary) and ports
\* they declare, with matching direction
WellFormed(c) ==
    \A k \in DOMAIN c.conns :
        LET e == c.conns[k]
        IN  /\ ~(e[1] = External /\ e[3] = External)
            /\ e[1] = External => (e[2] \in c.inports /\ e[3] \in Blocks(c)
                                     /\ e[4] \in Inports(e[3]))
            /\ e[3] = External => (e[4] \in c.outports /\ e[1] \in Blocks(c)
                                     /\ e[2] \in Outports(e[1]))
            /\ (e[1] # External /\ e[3] # External) =>
                   (e[1] \in Blocks(c) /\ e[3] \in Blocks(c)
                      /\ e[2] \in Outports(e[1]) /\ e[4] \in Inports(e[3]))

BoundaryIn(c) == {k \in DOMAIN c.conns : c.conns[k][1] = External}

BoundaryOut(c) == {k \in DOMAIN c.conns : c.conns[k][3] = External}

\* C13: once a network with a declared inport p and a connection
\* ('external', p, X, w) has been constructed, the network exists and its
\* inport queue for p is child X's inport queue for w.
C13_BoundaryInAliasesChildQueue ==
    (WellFormed(cfg) /\ BoundaryIn(cfg) # {} /\ BoundaryOut(cfg) = {} /\ netpc # "new") =>
        /\ netpc # "construct_failed"
        /\ \A k \in BoundaryIn(cfg) :
               /\ cfg.conns[k][2] \in DOMAIN net_in_q
               /\ net_in_q[cfg.conns[k][2]] = InQ(cfg.conns[k][3], cfg.conns[k][4])

\* C14: once a network with a declared outport p and a connection
\* (X, w, 'external', p) has been constructed, the network exists and child
\* X's outport slot w holds the network's outport queue for p.
C14_BoundaryOutSharesNetworkQueue ==
    (WellFormed(cfg) /\ BoundaryOut(cfg) # {} /\ BoundaryIn(cfg) = {} /\ netpc # "new") =>
        /\ netpc # "construct_failed"
        /\ \A k \in BoundaryOut(cfg) :
               /\ cfg.conns[k][4] \in DOMAIN net_out_q
               /\ out_q[cfg.conns[k][1]][cfg.conns[k][2]] # None
               /\ out_q[cfg.conns[k][1]][cfg.conns[k][2]] = net_out_q[cfg.conns[k][4]]

\* the slot a block's outport holds, None when the block has no such slot
OutSlot(b, p) ==
    IF b \in Agents /\ p \in DOMAIN out_q[b] THEN out_q[b][p] ELSE None

\* C15: when a child of a network is itself a network with boundary ports,
\* both networks can be built, the child's inner wiring is resolved first,
\* and the child then stands for its inner components: the outport of a
\* sibling wired to the child network's inport p holds the inport queue of
\* the inner component behind p, and the outport of the inner component
\* behind the child network's outport p holds the inport queue of the
\* sibling wired to p.
C15_NestedNetworkIsTransparent ==
    (Nested(cfg) /\ cfg.inports \cup cfg.outports # {} /\ WellFormed(cfg)
       /\ WellFormed(OuterNet(cfg)) /\ netpc # "new") =>
        /\ netpc # "construct_failed"
        /\ opc # "construct_failed"
        /\ opc # "new" =>
               /\ \A j \in BoundaryIn(cfg) : \A k \in DOMAIN cfg.outer.conns :
                      (cfg.outer.conns[k][3] = Inner
                         /\ cfg.outer.conns[k][4] = cfg.conns[j][2]) =>
                          OutSlot(cfg.outer.conns[k][1], cfg.outer.conns[k][2])
                              = InQ(cfg.conns[j][3], cfg.conns[j][4])
               /\ \A j \in BoundaryOut(cfg) : \A k \in DOMAIN cfg.outer.conns :
                      (cfg.outer.conns[k][1] = Inner
                         /\ cfg.outer.conns[k][2] = cfg.conns[j][4]) =>
                          OutSlot(cfg.conns[j][1], cfg.conns[j][2])
                              = InQ(cfg.outer.conns[k][3], cfg.outer.conns[k][4])

\* C16: check() accepts a connection ('external', p, X, w) exactly when p is
\* a declared inport of the network, X is a child of the network and w is a
\* declared inport of X (of the child, not of the network).
C16_CheckBoundaryInAgainstChild ==
    \A k \in BoundaryIn(cfg) :
        LET e == cfg.conns[k]
        IN  ~CheckFromExternal(cfg, e) <=>
                (e[2] \in cfg.inports /\ e[3] \in Blocks(cfg) /\ e[4] \in Inports(e[3]))

\* C17: check() accepts a connection (X, w, 'external', p) exactly when p is
\* a declared outport of the network, X is a child of the network and w is a
\* declared outport of X (of the child, not of the network).
C17_CheckBoundaryOutAgainstChild ==
    \A k \in BoundaryOut(cfg) :
        LET e == cfg.conns[k]
        IN  ~CheckToExternal(cfg, e) <=>
                (e[4] \in cfg.outports /\ e[1] \in Blocks(cfg) /\ e[2] \in Outports(e[1]))

\* how many connections leave network inport p / enter network outport p
NumFromInport(c, p) ==
    Cardinality({k \in DOMAIN c.conns : c.conns[k][1] = External /\ c.conns[k][2] = p})

NumToOutport(c, p) ==
    Cardinality({k \in DOMAIN c.conns : c.conns[k][3] = External /\ c.conns[k][4] = p})

BoundaryPortsOnce(c) ==
    /\ \A p \in c.inports : NumFromInport(c, p) = 1
    /\ \A p \in c.outports : NumToOutport(c, p) = 1

NumFromOutport(c, b, p) ==
    Cardinality({k \in DOMAIN c.conns : c.conns[k][1] = b /\ c.conns[k][2] = p})

NumToInport(c, b, p) ==
    Cardinality({k \in DOMAIN c.conns : c.conns[k][3] = b /\ c.conns[k][4] = p})

\* the wiring invariants other than the one on fan-in: no child is called
\* 'external', every connection names existing blocks and declared ports,
\* every boundary port and every child outport is connected exactly once
WiringInvariants(c) ==
    /\ External \notin Blocks(c)
    /\ WellFormed(c)
    /\ BoundaryPortsOnce(c)
    /\ \A b \in Blocks(c) : \A p \in Outports(b) : NumFromOutport(c, b, p) = 1

HasFanIn(c) ==
    \E b \in Blocks(c) : \E p \in Inports(b) : NumToInport(c, b, p) >= 2

\* C20: check() accepts a connection list in which several connections, from
\* network inports and from outports of distinct children, share one child
\* inport as their destination, when every other wiring invariant holds.
C20_FanInAccepted ==
    (WiringInvariants(cfg) /\ HasFanIn(cfg)) =>
        /\ Check(cfg) = "ok"
        /\ \A i \in DOMAIN checkLog : checkLog[i] = "ok"
        /\ netpc # "check_failed"

\* the only irregularity of the connection list is a child inport that
\* nothing is connected to
OnlyUnconnectedInport(c) ==
    /\ WiringInvariants(c)
    /\ BoundaryIn(c) = {}
    /\ BoundaryOut(c) = {}
    /\ \E b \in Blocks(c) : \E p \in Inports(b) : NumToInport(c, b, p) = 0

\* C19: for a network whose only irregularity is a child inport without an
\* incoming connection, check() returns without raising and run() goes on to
\* execute every child: when run() can take no further step, every child's
\* run() has been called.
C19_UnconnectedInportNotFatal ==
    OnlyUnconnectedInport(cfg) =>
        /\ \A i \in DOMAIN checkLog : checkLog[i] = "ok"
        /\ netpc # "check_failed"
        /\ (Executing /\ ~ENABLED Next) => \A b \in Blocks(cfg) : cpc[b] # "idle"

OuterChildFailed(b) ==
    IF b = Inner THEN netpc \in {"check_failed", "run_failed"} ELSE cpc[b] = "failed"

\* C22: when run() of a network has failed because the run() of one of its
\* children raised, the error run() raises names the network and names the
\* child that failed.
C22_RunErrorNamesNetworkAndChild ==
    /\ netpc = "run_failed" =>
          /\ err.type = "RuntimeError"
          /\ NetName \in err.names
          /\ \E b \in Blocks(cfg) : cpc[b] = "failed" /\ NameOf(b) \in err.names
    /\ opc = "run_failed" =>
          /\ err.type = "RuntimeError"
          /\ OuterName \in err.names
          /\ \E b \in Range(cfg.outer.order) :
                OuterChildFailed(b) /\ NameOf(b) \in err.names

\* C23: send on a port the agent does not declare raises, send on a declared
\* outport that no queue has been assigned to raises, and a send that raises
\* leaves every queue as it was.
C23_SendErrorCases ==
    /\ [](\A i \in DOMAIN calls :
            calls[i].op = "send" =>
                /\ calls[i].port \notin Outports(calls[i].agent)
                      => calls[i].result = "ValueError"
                /\ (/\ calls[i].port \in Outports(calls[i].agent)
                    /\ out_q[calls[i].agent][calls[i].port] = None)
                      => calls[i].result = "ValueError")
    /\ [][(/\ Len(calls') = Len(calls) + 1
           /\ calls'[Len(calls')].op = "send"
           /\ calls'[Len(calls')].result = "ValueError") => queue' = queue]_vars

\* both error cases have happened: a send on an undeclared port and a send
\* on the declared, unconnected outport of the sender
C23_Witness ==
    /\ Len(calls) = 2
    /\ calls[1] = Call("send", "receiver", "out", FALSE, Plain("a"), "ValueError")
    /\ calls[2] = Call("send", "sender", "out", FALSE, Plain("a"), "ValueError")
    /\ out_q["sender"]["out"] = None

\* C24: recv on a port the agent does not declare raises; on a declared
\* inport it cannot return while the queue is empty, and when it returns it
\* returns the head of the queue (the oldest message) and leaves the other
\* messages in the queue in their order.
C24_RecvContract ==
    /\ [](\A i \in DOMAIN calls :
            (calls[i].op = "recv" /\ calls[i].port \notin Inports(calls[i].agent))
                => calls[i].result = "ValueError")
    /\ [](\A b \in {"sender", "receiver"}, p \in CallPorts :
            (p \in Inports(b) /\ queue[InQ(b, p)] = <<>>) => ~ENABLED AgentRecv(b, p))
    /\ [][(/\ Len(calls') = Len(calls) + 1
           /\ calls'[Len(calls')].op = "recv"
           /\ calls'[Len(calls')].result = "ok") =>
             LET c == calls'[Len(calls')]
                 q == InQ(c.agent, c.port)
             IN  /\ queue[q] # <<>>
                 /\ c.msg = Head(queue[q])
                 /\ queue' = [queue EXCEPT ![q] = Tail(queue[q])]]_vars

\* a recv has returned the oldest of three messages and left the other two,
\* and a recv on an undeclared port has raised
C24_Witness ==
    /\ Len(calls) = 2
    /\ calls[1] = Call("recv", "receiver", "in", FALSE, Plain("a"), "ok")
    /\ queue[InQ("receiver", "in")] = <<Plain("b"), Plain("a")>>
    /\ calls[2] = Call("recv", "sender", "in", FALSE, NoMessage, "ValueError")

\* C28: SimpleAgent(...) given a handler and no inport raises, so that no
\* agent with a handler and without an inport is ever made.
C28_HandlerNeedsInport ==
    \A i \in DOMAIN calls :
        (calls[i].op = "new" /\ calls[i].handler /\ calls[i].port = NoInport)
            => calls[i].result = "ValueError"

\* both constructions have been tried: a handler without an inport, which
\* raised, and a handler with an inport, which did not
C28_Witness ==
    /\ Len(calls) = 2
    /\ calls[1] = Call("new", "-", NoInport, TRUE, NoMessage, "ValueError")
    /\ calls[2] = Call("new", "-", "in", TRUE, NoMessage, "ok")

\* the agents that are built without a handler
NoHandler == Senders \cup {"worker", External}

C26_DoneIsTerminal ==
    /\ [](\A b \in Agents :
            (Loop(cfg, b) = "plain" /\ NumSentinels(consumed[b]) > 0) =>
                /\ cpc[b] = "done"
                /\ NumSentinels(consumed[b]) = 1
                /\ IsSentinel(consumed[b][Len(consumed[b])]))
    /\ [][\A b \in Agents :
            cpc[b] = "done" =>
                /\ cpc'[b] = "done"
                /\ consumed'[b] = consumed[b]
                /\ received'[b] = received[b]
                /\ \A p \in Inports(b) : IsPrefix(queue[InQ(b, p)], queue'[InQ(b, p)])]_vars

\* the receiver is done, run() has returned, and two messages are left
\* behind the sentinel it received
C26_Witness ==
    /\ cfg.loop = "plain"
    /\ netpc = "done"
    /\ cpc["receiver"] = "done"
    /\ Len(queue[InQ("receiver", "in")]) >= 2

\* C27: the plain loop ends only by a sentinel: an agent that is done has
\* received one; an agent in its loop with a sentinel in its queue gets
\* done; and an agent in its loop with an empty queue cannot take a step (it
\* stays in recv until something is sent to it).
C27_TerminationIsDataDriven ==
    /\ [](\A b \in Agents :
            (Loop(cfg, b) = "plain" /\ cpc[b] = "done") => NumSentinels(consumed[b]) > 0)
    /\ [](\A b \in Agents :
            (Loop(cfg, b) = "plain" /\ cpc[b] = "loop" /\ queue[InQ(b, "in")] = <<>>)
                => ~ENABLED Recv(b))
    /\ (/\ Loop(cfg, "receiver") = "plain"
        /\ cpc["receiver"] = "loop"
        /\ NumSentinels(queue[InQ("receiver", "in")]) > 0)
           ~> (cpc["receiver"] = "done")

\* the receiver has ended its loop on the sentinel that followed two payloads
C27_Witness ==
    /\ cfg.loop = "plain"
    /\ cpc["receiver"] = "done"
    /\ Len(received["receiver"]) = 2
    /\ IsSentinel(consumed["receiver"][3])

\* C29: Network(...) given a blocks map with the key 'external' raises: the
\* constructor call does not return a network.
C29_ReservedNameFailsConstruction ==
    (External \in Blocks(cfg) /\ netpc # "new") => netpc = "construct_failed"

\* what the sender's init_fn puts before the sentinel, as the handler sees it
ProcPayloads ==
    [i \in 1..(Len(cfg.script["sender"]) - 1) |-> Plain(cfg.script["sender"][i])]

\* C30: with the sender and the receiver each started as a process of its
\* own, in either start order and under every interleaving, both processes
\* end and the main program's joins return; the receiver's handler is called
\* on messages the sender has put, in the order it put them, and when the
\* receiver has ended it has been called on exactly all of them.
C30_ProcessPerAgentDelivers ==
    /\ <>(netpc = "done" /\ cpc["sender"] = "done" /\ cpc["receiver"] = "done")
    /\ [](IsPrefix(received["receiver"], ProcPayloads))
    /\ [](cpc["receiver"] = "done" => received["receiver"] = ProcPayloads)

\* the receiver was started first, both processes have been joined, and the
\* handler has had the three payloads
C30_Witness ==
    /\ cfg.order = <<"receiver", "sender">>
    /\ netpc = "done"
    /\ received["receiver"] = <<Plain("a"), Plain("b"), Plain("a")>>

\* what the sender sends as content: every message of its script before the
\* last one, which closes the stream
Content(b) ==
    [i \in 1..(Len(cfg.script[b]) - 1) |-> Message(cfg, b, cfg.script[b][i])]

\* C31: no message sent as content ends the handler loop or is kept from
\* the handler: when the sender has sent its content and then the sentinel,
\* and the receiver's loop has ended, the handler has been called on every
\* message of the content and the queue is empty.
C31_SentinelDistinctFromPayloads ==
    (/\ TwoNode
     /\ cfg.loop = "plain"
     /\ ~cfg.tagged
     /\ Len(cfg.script["sender"]) >= 1
     /\ cfg.script["sender"][Len(cfg.script["sender"])] = STOP
     /\ cpc["sender"] = "done"
     /\ cpc["receiver"] = "done")
        => /\ received["receiver"] = Content("sender")
           /\ queue[InQ("receiver", "in")] = <<>>

\* C32: a constructor call whose inports list has a name twice, or whose
\* outports list has a name twice, raises; a call whose lists have no repeat
\* does not, also when a name is in both lists.
C32_DuplicatePortsRejected ==
    \A i \in DOMAIN calls :
        LET c == calls[i]
            repeated(l) == \E j, k \in DOMAIN l : j < k /\ l[j] = l[k]
        IN  c.result = IF repeated(c.inports) \/ repeated(c.outports)
                       THEN "ValueError" ELSE "ok"

\* Network(inports=['x'], outports=['x', 'x']) has raised
C32_Witness ==
    calls = <<[op |-> "Network", inports |-> <<"x">>, outports |-> <<"x", "x">>,
               result |-> "ValueError"]>>

\* the internal connections of the list: between two children, on ports they declare
InternalConns(c) ==
    {e \in Range(c.conns) :
        /\ e[1] \in Blocks(c) \ {External}
        /\ e[3] \in Blocks(c) \ {External}
        /\ e[2] \in Outports(e[1])
        /\ e[4] \in Inports(e[3])}

\* C33: once a network with an internal connection (X, w, Y, v) is built,
\* slot w of X's out_q is the queue that is entry v of Y's in_q; and a send
\* of X on w appends the message to the tail of that queue, whatever its
\* length.
C33_InternalWiringSharesQueue ==
    /\ [](netpc \notin {"new", "construct_failed"} =>
            \A e \in InternalConns(cfg) : out_q[e[1]][e[2]] = in_q[e[3]][e[4]])
    /\ [][\A e \in InternalConns(cfg) :
            ip'[e[1]] = ip[e[1]] + 1 =>
                queue'[in_q[e[3]][e[4]]] =
                    Append(queue[in_q[e[3]][e[4]]],
                           Message(cfg, e[1], cfg.script[e[1]][ip[e[1]]]))]_vars

\* C34: when run() of a network has returned without an error, the run() of
\* every child in its blocks map has been called and has returned.
C34_RunReturnsAfterAllChildren ==
    /\ netpc = "done" => \A b \in Blocks(cfg) : cpc[b] = "done"
    /\ opc = "done" =>
          \A b \in Range(cfg.outer.order) :
              IF b = Inner THEN netpc = "done" ELSE cpc[b] = "done"

\* run() of the merge network has returned, its three children have ended
C34_Witness ==
    /\ FanIn
    /\ netpc = "done"
    /\ cpc["sender"] = "done"
    /\ cpc["sender2"] = "done"
    /\ cpc["receiver"] = "done"

\* the index in the blocks map of the child whose run() raised
FailedAt(k) == k \in DOMAIN cfg.order /\ cpc[cfg.order[k]] = "failed"

\* C35: when run() has failed because the k-th child raised, every child
\* before it in the blocks map has run to its end and no child after it has
\* been started (a child that raised always fails the run); and from then on no child is started and every queue keeps
\* its messages.
C35_FailureStopsTheLoop ==
    /\ [](\A k \in DOMAIN cfg.order : FailedAt(k) => netpc = "run_failed")
    /\ [](netpc = "run_failed" =>
            \E k \in DOMAIN cfg.order :
                /\ FailedAt(k)
                /\ \A i \in DOMAIN cfg.order :
                      /\ i < k => cpc[cfg.order[i]] = "done"
                      /\ i > k => /\ cpc[cfg.order[i]] = "idle"
                                  /\ consumed[cfg.order[i]] = <<>>)
    /\ [][netpc = "run_failed" =>
            /\ netpc' = "run_failed"
            /\ \A b \in Blocks(cfg) : cpc'[b] = cpc[b]
            /\ queue' = queue]_vars

\* the worker, second of three, has raised: the sender before it has ended,
\* the receiver after it was never started and the two messages sent to it
\* are in its queue
C35_Witness ==
    /\ cfg.order = <<"sender", "worker", "receiver">>
    /\ netpc = "run_failed"
    /\ cpc = [[b \in Agents |-> "idle"] EXCEPT !["sender"] = "done", !["worker"] = "failed"]
    /\ Len(queue[InQ("receiver", "in")]) = 2

\* the children in the order in which run() starts them: the blocks of the
\* enclosing network, the child network replaced by its own blocks
RECURSIVE RunOrderOf(_)
RunOrderOf(order) ==
    IF order = <<>> THEN <<>>
    ELSE (IF Head(order) = Inner THEN cfg.order ELSE <<Head(order)>>)
         \o RunOrderOf(Tail(order))

RunOrder == IF cfg.outer.order = <<>> THEN cfg.order ELSE RunOrderOf(cfg.outer.order)

\* the messages sent so far through outports bound to queue q, in the order
\* of their send() calls
RECURSIVE SentTo(_, _)
SentTo(q, order) ==
    IF order = <<>> THEN <<>>
    ELSE LET b == Head(order)
         IN  (IF "out" \in DOMAIN out_q[b] /\ out_q[b]["out"] = q
              THEN SentBy(b) ELSE <<>>)
             \o SentTo(q, Tail(order))

\* the messages the owner of queue q has taken from it by recv()
ReceivedFrom(q) == IF q[1] \in Agents THEN consumed[q[1]] ELSE <<>>

\* C36: at every moment what has been received from a queue followed by what the queue holds is what has been sent to it, in order:
\* the queue holds the sent messages less the prefix already received, no
\* message is received twice, and a send step appends its message to one
\* queue and changes no other.
C36_MessageConservation ==
    /\ [](\A q \in DOMAIN queue : ReceivedFrom(q) \o queue[q] = SentTo(q, RunOrder))
    /\ [][\A b \in Agents :
            ip'[b] # ip[b] =>
                \E q \in DOMAIN queue :
                    /\ queue'[q] = Append(queue[q], Message(cfg, b, cfg.script[b][ip[b]]))
                    /\ \A r \in DOMAIN queue \ {q} : queue'[r] = queue[r]]_vars

\* the two senders have sent all their messages to the one queue and the
\* receiver has taken some of them and left the others
C36_Witness ==
    /\ FanIn
    /\ netpc = "running"
    /\ ip["sender"] > 1
    /\ ip["sender2"] > 1
    /\ consumed["receiver"] # <<>>
    /\ queue[InQ("receiver", "in")] # <<>>

\* connect() called once more on the network, from the maps it has now
Rewired ==
    ConnectFrom([out_q |-> out_q, cin |-> in_q, in_q |-> net_in_q, nout_q |-> net_out_q,
                 iin |-> <<>>, iout |-> <<>>, ok |-> TRUE], cfg, 1)

\* C37: connect() on a network that is already wired changes no binding:
\* called again at any moment it raises nothing and leaves every out_q and
\* in_q entry of the children and of the network on the queue it had; and
\* the construction of an enclosing network, which calls the child
\* network's connect() again, leaves the entries of the child network's
\* blocks and the child network's in_q as they were.
C37_ConnectIdempotent ==
    /\ [](netpc \notin {"new", "construct_failed"} =>
            /\ Rewired.ok
            /\ Rewired.out_q = out_q
            /\ Rewired.cin = in_q
            /\ Rewired.in_q = net_in_q
            /\ Rewired.nout_q = net_out_q)
    /\ [][opc = "new" /\ opc' # "new" =>
            /\ \A b \in Blocks(cfg) : out_q'[b] = out_q[b] /\ in_q'[b] = in_q[b]
            /\ net_in_q' = net_in_q]_vars

\* the enclosing network is built around sender -> receiver: the child
\* network has been wired twice and the sender's outport is on the
\* receiver's queue
C37_Witness ==
    /\ Nested(cfg)
    /\ cfg.conns = <<Wire("sender")>>
    /\ opc = "built"
    /\ out_q["sender"]["out"] = InQ("receiver", "in")
    /\ in_q["receiver"]["in"] = InQ("receiver", "in")

\* a step that is the construction of the network or of the enclosing one
Wires == (netpc = "new" /\ netpc' # "new") \/ (opc = "new" /\ opc' # "new")

\* C38: wiring rebinds no inport of an agent: every step, and so every
\* connect_ports, leaves the in_q map of every agent as Block.__init__ made
\* it; a wiring step leaves every queue's messages in place; and the
\* network's own out_q gets no entry from its connect_ports: what wiring
\* assigns is out_q slots of children and entries of the network's in_q.
C38_WiringKeepsInports ==
    /\ [](in_q = InitInQ)
    /\ [][in_q' = in_q]_vars
    /\ [][Wires => queue' = queue]_vars
    /\ [][netpc = "new" /\ netpc' # "new" => net_out_q' = net_out_q]_vars

\* sender -> receiver is built: the sender's slot has been assigned and the
\* receiver's in_q is the map its constructor made
C38_Witness ==
    /\ cfg.order = <<"sender", "receiver">>
    /\ cfg.conns = <<Wire("sender")>>
    /\ netpc = "built"
    /\ out_q["sender"] = [p \in {"out"} |-> InQ("receiver", "in")]
    /\ in_q["receiver"] = [p \in {"in"} |-> InQ("receiver", "in")]
    /\ queue[InQ("receiver", "in")] = <<>>

\* the positions in the connection list of the internal connections from
\* outport p of block b
FromPort(c, b, p) ==
    {i \in DOMAIN c.conns :
        c.conns[i][1] = b /\ c.conns[i][2] = p /\ c.conns[i][3] # External}

\* the outports that are the source of two internal connections to
\* different inports
FanOuts(c) ==
    {bp \in Agents \X {"out"} :
        \E i, j \in FromPort(c, bp[1], bp[2]) :
            <<c.conns[i][3], c.conns[i][4]>> # <<c.conns[j][3], c.conns[j][4]>>}

\* the last listed of the connections at the positions S
LastOf(c, S) == c.conns[CHOOSE i \in S : \A j \in S : j <= i]

\* C39: a connection list in which one outport of a child is the source of
\* two internal connections to different inports is accepted by the
\* constructor (for the lists whose ports all exist), which leaves the
\* outport bound to the queue of the last listed destination only; check()
\* raises its ValueError for it, so run() fails in check() before any child
\* is started.
C39_FanOutOverwritten ==
    /\ cfg \in FanOutConfigs /\ netpc # "new" => netpc # "construct_failed"
    /\ FanOuts(cfg) # {} /\ netpc \notin {"new", "construct_failed"} =>
          /\ \A bp \in FanOuts(cfg) :
                LET last == LastOf(cfg, FromPort(cfg, bp[1], bp[2]))
                IN  out_q[bp[1]][bp[2]] = in_q[last[3]][last[4]]
          /\ Check(cfg) = "ValueError"
          /\ netpc \in {"built", "check_failed"}
          /\ \A b \in Agents : cpc[b] = "idle"
          /\ netpc = "check_failed" => err = CheckError(cfg, NetName)

\* sender.out listed to receiver and then to receiver2: the network was
\* built with the outport on receiver2's queue, and run() has failed in check()
C39_Witness ==
    /\ cfg.conns = <<Wire("sender"), <<"sender", "out", "receiver2", "in">>>>
    /\ netpc = "check_failed"
    /\ out_q["sender"]["out"] = InQ("receiver2", "in")
    /\ err.type = "ValueError"

====
